---- MODULE Spec2Model ----
(***************************************************************************)
(* Model of main.py: the numeric functions fibonacci, is_prime and         *)
(* primes_up_to, the argparse front end parse_args, the dispatcher main    *)
(* and the __main__ entry point with its top-level exception handler.      *)
(*                                                                         *)
(* Two specifications:                                                     *)
(*   Spec     one run of the script from an argument vector and an         *)
(*            environment to the process exit status;                      *)
(*   SpecLib  direct calls of the three module-level numeric functions.    *)
(*                                                                         *)
(* Text that the code parses (command-line tokens) is a sequence of        *)
(* one-character strings; text that the code only writes (output lines,    *)
(* environment values) is a string.                                        *)
(***************************************************************************)
EXTENDS Integers, Sequences, FiniteSets, TLC

VARIABLES
    argv,      \* sys.argv[1:], a sequence of tokens
    env,       \* os.environ restricted to the six CI variables (partial map)
    pc,        \* position of the run: start, parsed, returned, raised, exited
    args,      \* the Namespace parse_args returned
    calls,     \* numeric functions main called: <<name, argument, outcome>>
    stdout,    \* lines written to standard output
    stderr,    \* lines written to standard error by the argument parser
    log,       \* logger calls: <<level, message>>
    ret,       \* value returned by main
    exc,       \* exception that left main
    status,    \* process exit status
    exit_at,   \* where SystemExit was raised: argparse, main, except
    call       \* SpecLib: the last direct call, [fn, arg, out]

vars == <<argv, env, pc, args, calls, stdout, stderr, log, ret, exc, status,
          exit_at, call>>

cli_vars == <<argv, env, pc, args, calls, stdout, stderr, log, ret, exc,
              status, exit_at>>

-----------------------------------------------------------------------------
(* Bounds of the model *)

\* largest n given on the command line (decimal tokens -NegSpan .. MaxN)
MaxN == 12
\* how far below zero the explored integers go
NegSpan == 3
\* largest x handed directly to is_prime
MaxX == 130
\* largest n handed directly to fibonacci
MaxFibN == 14
\* largest n handed directly to primes_up_to
MaxPrimesN == 40
\* longest argument vector built freely from ShortTokens
MaxArgs == 2

-----------------------------------------------------------------------------
(* Outcomes of a Python call *)

Return(v) == [kind |-> "return", value |-> v]

Raise(e) == [kind |-> "raise", exc |-> e]

-----------------------------------------------------------------------------
(* fibonacci, lines 30-47 *)

\* the for loop of lines 45-46: i runs over range(2, n)
RECURSIVE fib_loop(_, _, _)
fib_loop(seq, i, n) ==
    IF i >= n
        THEN seq
        ELSE fib_loop(Append(seq, seq[Len(seq)] + seq[Len(seq) - 1]), i + 1, n)

\* bug variant: range(2, n + 1), one element too many
fibonacci_long(n) ==
    IF n < 0 THEN Raise("ValueError")
    ELSE IF n = 0 THEN Return(<<>>)
    ELSE IF n = 1 THEN Return(<<0>>)
    ELSE Return(fib_loop(<<0, 1>>, 2, n + 1))

\* bug variant: appends seq[-1] + seq[-1]
RECURSIVE fib_loop_double(_, _, _)
fib_loop_double(seq, i, n) ==
    IF i >= n
        THEN seq
        ELSE fib_loop_double(Append(seq, seq[Len(seq)] + seq[Len(seq)]), i + 1, n)

fibonacci_double(n) ==
    IF n < 0 THEN Raise("ValueError")
    ELSE IF n = 0 THEN Return(<<>>)
    ELSE IF n = 1 THEN Return(<<0>>)
    ELSE Return(fib_loop_double(<<0, 1>>, 2, n))

\* bug variant: the n < 0 check is missing
fibonacci_unchecked(n) ==
    IF n = 0 THEN Return(<<>>)
    ELSE IF n = 1 THEN Return(<<0>>)
    ELSE Return(fib_loop(<<0, 1>>, 2, n))

fibonacci(n) ==
    IF n < 0 THEN Raise("ValueError")
    ELSE IF n = 0 THEN Return(<<>>)
    ELSE IF n = 1 THEN Return(<<0>>)
    ELSE Return(fib_loop(<<0, 1>>, 2, n))

-----------------------------------------------------------------------------
(* is_prime, lines 50-66 *)

\* the while loop of lines 61-66
RECURSIVE is_prime_loop(_, _)
is_prime_loop(x, i) ==
    IF i * i <= x
        THEN IF x % i = 0 \/ x % (i + 2) = 0
                 THEN FALSE
                 ELSE is_prime_loop(x, i + 6)
        ELSE TRUE

\* bug variant: the loop tests only x % i, not x % (i + 2)
RECURSIVE is_prime_loop_single(_, _)
is_prime_loop_single(x, i) ==
    IF i * i <= x
        THEN IF x % i = 0
                 THEN FALSE
                 ELSE is_prime_loop_single(x, i + 6)
        ELSE TRUE

is_prime_single(x) ==
    IF x <= 1 THEN FALSE
    ELSE IF x <= 3 THEN TRUE
    ELSE IF x % 2 = 0 \/ x % 3 = 0 THEN FALSE
    ELSE is_prime_loop_single(x, 5)

is_prime(x) ==
    IF x <= 1 THEN FALSE
    ELSE IF x <= 3 THEN TRUE
    ELSE IF x % 2 = 0 \/ x % 3 = 0 THEN FALSE
    ELSE is_prime_loop(x, 5)

-----------------------------------------------------------------------------
(* primes_up_to, lines 69-75 *)

\* range(a, b) as a sequence
range(a, b) == [k \in 1..(IF b > a THEN b - a ELSE 0) |-> a + k - 1]

\* bug variant: range(2, n), the bound n itself is left out
primes_up_to_exclusive(n) ==
    IF n < 2 THEN <<>> ELSE SelectSeq(range(2, n), is_prime)

primes_up_to(n) ==
    IF n < 2 THEN <<>> ELSE SelectSeq(range(2, n + 1), is_prime)

-----------------------------------------------------------------------------
(* SpecLib: the functions called directly *)

NoCall == [fn |-> "none", arg |-> 0, out |-> Return(0)]

CallFibonacci ==
    \E n \in (-NegSpan)..MaxFibN :
        call' = [fn |-> "fibonacci", arg |-> n, out |-> fibonacci(n)]

CallIsPrime ==
    \E x \in (-NegSpan)..MaxX :
        call' = [fn |-> "is_prime", arg |-> x, out |-> Return(is_prime(x))]

CallPrimesUpTo ==
    \E n \in (-NegSpan)..MaxPrimesN :
        call' = [fn |-> "primes_up_to", arg |-> n, out |-> Return(primes_up_to(n))]

-----------------------------------------------------------------------------
(* Text helpers *)

Digits == <<"0", "1", "2", "3", "4", "5", "6", "7", "8", "9">>

IsDigit(c) == \E i \in 1..Len(Digits) : Digits[i] = c

DigitValue(c) == (CHOOSE i \in 1..Len(Digits) : Digits[i] = c) - 1

AllDigits(s) == \A i \in 1..Len(s) : IsDigit(s[i])

RECURSIVE digits_value(_, _)
digits_value(s, acc) ==
    IF s = <<>> THEN acc
    ELSE digits_value(Tail(s), acc * 10 + DigitValue(Head(s)))

\* str(i) of a non-negative integer, as a string
RECURSIVE nat_str(_)
nat_str(i) ==
    IF i < 10 THEN Digits[i + 1]
    ELSE nat_str(i \div 10) \o Digits[(i % 10) + 1]

\* str(i)
int_str(i) == IF i < 0 THEN "-" \o nat_str(-i) ELSE nat_str(i)

\* repr of a list of integers, what print(seq) writes (lines 108, 114)
RECURSIVE join_ints(_)
join_ints(seq) ==
    IF seq = <<>> THEN ""
    ELSE IF Len(seq) = 1 THEN int_str(seq[1])
    ELSE int_str(seq[1]) \o ", " \o join_ints(Tail(seq))

list_repr(seq) == "[" \o join_ints(seq) \o "]"

-----------------------------------------------------------------------------
(* Command-line tokens *)

FIB == <<"f", "i", "b">>

PRIMES == <<"p", "r", "i", "m", "e", "s">>

ENV == <<"e", "n", "v">>

OPT_N == <<"-", "-", "n">>

HELP == <<"-", "h">>

\* task attribute of a Namespace whose subcommand was never set
NoTask == <<"None">>

\* the subparsers registered on lines 86, 90 and 94
choices == {FIB, PRIMES, ENV}

\* subcommands whose parser declares --n (lines 87, 91)
takes_n == {FIB, PRIMES}

-----------------------------------------------------------------------------
(* int(), the type= converter of --n (lines 87, 91), on sign and digits *)

\* bug variant: a lenient converter that turns non-numeric text into 0
py_int_lenient(tok) ==
    LET signed == tok # <<>> /\ tok[1] \in {"-", "+"}
        body == IF signed THEN Tail(tok) ELSE tok
        magnitude == digits_value(body, 0)
    IN  IF body = <<>> \/ ~AllDigits(body)
            THEN Return(0)
            ELSE Return(IF signed /\ tok[1] = "-" THEN -magnitude ELSE magnitude)

py_int(tok) ==
    LET signed == tok # <<>> /\ tok[1] \in {"-", "+"}
        body == IF signed THEN Tail(tok) ELSE tok
        magnitude == digits_value(body, 0)
    IN  IF body = <<>> \/ ~AllDigits(body)
            THEN Raise("ValueError")
            ELSE Return(IF signed /\ tok[1] = "-" THEN -magnitude ELSE magnitude)

-----------------------------------------------------------------------------
(* parse_args, lines 79-99: argparse on the tokens of this model.          *)
(* Tokens with "=", blanks, "--" alone and abbreviations of --help are     *)
(* outside the token alphabet.                                             *)

\* argparse's negative-number pattern  ^-\d+$|^-\d*\.\d+$
is_negative_number(tok) ==
    /\ Len(tok) >= 2
    /\ tok[1] = "-"
    /\ LET r == Tail(tok)
       IN  \/ AllDigits(r)
           \/ \E p \in 1..(Len(r) - 1) :
                /\ r[p] = "."
                /\ AllDigits(SubSeq(r, 1, p - 1))
                /\ AllDigits(SubSeq(r, p + 1, Len(r)))

\* a token the parser reads as an option string rather than as an argument;
\* no parser of lines 80-97 declares an option that looks like a negative number
is_option_string(tok) ==
    /\ tok # <<>>
    /\ tok[1] = "-"
    /\ Len(tok) > 1
    /\ ~is_negative_number(tok)

\* parser.error(): usage on stderr, SystemExit(2)
parser_error(msg) == [kind |-> "exit", status |-> 2, stream |-> "stderr", text |-> msg]

\* -h: help on stdout, SystemExit(0)
parser_help == [kind |-> "exit", status |-> 0, stream |-> "stdout", text |-> "usage"]

namespace(ns) == [kind |-> "namespace", ns |-> ns]

\* the options of one subcommand, scanned left to right (store action of --n,
\* help action of -h, everything else collected as unrecognized)
RECURSIVE sub_scan(_, _, _, _)
sub_scan(cmd, toks, n, extras) ==
    IF toks = <<>> THEN [kind |-> "end", n |-> n, extras |-> extras]
    ELSE IF Head(toks) = HELP THEN parser_help
    ELSE IF cmd \in takes_n /\ Head(toks) = OPT_N THEN
        IF Len(toks) >= 2 /\ ~is_option_string(toks[2])
            THEN LET v == py_int(toks[2])
                 IN  IF v.kind = "raise"
                         THEN parser_error("argument --n: invalid int value")
                         ELSE sub_scan(cmd, SubSeq(toks, 3, Len(toks)), <<v.value>>, extras)
            ELSE parser_error("argument --n: expected one argument")
    ELSE sub_scan(cmd, Tail(toks), n, Append(extras, Head(toks)))

\* bug variant: --n declared with default=0 instead of required=True
sub_finish_default(cmd, scan, extras) ==
    IF scan.kind = "exit" THEN scan
    ELSE IF extras \o scan.extras # <<>>
        THEN parser_error("unrecognized arguments")
    ELSE IF cmd \in takes_n
        THEN namespace([task |-> cmd, n |-> IF scan.n = <<>> THEN 0 ELSE scan.n[1]])
    ELSE namespace([task |-> cmd])

\* end of a subcommand: required=True of --n (lines 87, 91), then the
\* unrecognized arguments are rejected by parse_args (line 99)
sub_finish(cmd, scan, extras) ==
    IF scan.kind = "exit" THEN scan
    ELSE IF cmd \in takes_n /\ scan.n = <<>>
        THEN parser_error("the following arguments are required: --n")
    ELSE IF extras \o scan.extras # <<>>
        THEN parser_error("unrecognized arguments")
    ELSE IF cmd \in takes_n
        THEN namespace([task |-> cmd, n |-> scan.n[1]])
    ELSE namespace([task |-> cmd])

\* bug variant: add_subparsers(dest="task") without required=True
missing_task_optional(extras) ==
    IF extras # <<>> THEN parser_error("unrecognized arguments")
    ELSE namespace([task |-> NoTask])

\* no subcommand on the command line: required=True of line 83
missing_task(extras) ==
    parser_error("the following arguments are required: task")

\* the top-level parser: its own options up to the first argument, which
\* selects the subparser that takes all the remaining tokens
RECURSIVE top_scan(_, _)
top_scan(toks, extras) ==
    IF toks = <<>> THEN missing_task(extras)
    ELSE IF Head(toks) = HELP THEN parser_help
    ELSE IF is_option_string(Head(toks))
        THEN top_scan(Tail(toks), Append(extras, Head(toks)))
    ELSE IF Head(toks) \notin choices
        THEN parser_error("argument task: invalid choice")
    ELSE sub_finish(Head(toks), sub_scan(Head(toks), Tail(toks), <<>>, <<>>), extras)

parse_args(a) == top_scan(a, <<>>)

-----------------------------------------------------------------------------
(* The environment, read on line 129 *)

vars_to_show ==
    <<"JENKINS_URL", "JOB_NAME", "BUILD_NUMBER", "GIT_URL", "BRANCH_NAME",
      "SONAR_HOST_URL">>

\* bug variant: os.getenv(k) without a default, an unset variable prints None
getenv_none(e, k, default) == IF k \in DOMAIN e THEN e[k] ELSE "None"

\* os.getenv(k, default)
getenv(e, k, default) == IF k \in DOMAIN e THEN e[k] ELSE default

\* the loop of lines 128-129
env_lines(e) ==
    [i \in 1..Len(vars_to_show) |->
        vars_to_show[i] \o "=" \o getenv(e, vars_to_show[i], "")]

-----------------------------------------------------------------------------
(* main, lines 102-133, and the entry point, lines 136-141 *)

\* the task branches of main after parse_args returned (lines 105-133):
\* what is logged, called and printed, and how main ends
run_task(a, e) ==
    IF a.task = FIB THEN
        LET r == fibonacci(a.n)
        IN  [log |-> <<<<"INFO", "Generating Fibonacci sequence...">>>>,
             calls |-> <<<<"fibonacci", a.n, r>>>>,
             out |-> IF r.kind = "raise" THEN <<>> ELSE <<list_repr(r.value)>>,
             end |-> IF r.kind = "raise" THEN r ELSE Return(0)]
    ELSE IF a.task = PRIMES THEN
        LET r == Return(primes_up_to(a.n))
        IN  [log |-> <<<<"INFO", "Listing primes up to n...">>>>,
             calls |-> <<<<"primes_up_to", a.n, r>>>>,
             out |-> <<list_repr(r.value)>>,
             end |-> Return(0)]
    ELSE IF a.task = ENV THEN
        [log |-> <<>>, calls |-> <<>>, out |-> env_lines(e), end |-> Return(0)]
    ELSE
        [log |-> <<<<"ERROR", "Unknown task.">>>>, calls |-> <<>>, out |-> <<>>,
         end |-> Return(2)]

\* bug variant: the handler exits with the status of an unknown task
top_level_handler_two(e) ==
    [log |-> <<"ERROR", "Unhandled error: " \o e>>, status |-> 2]

\* except Exception, lines 139-141
top_level_handler(e) ==
    [log |-> <<"ERROR", "Unhandled error: " \o e>>, status |-> 1]

\* ret, exc, status and exit_at before they are assigned
None == "None"

NoArgs == [task |-> NoTask]

\* line 103: parse_args either returns the Namespace or ends the process
ParseArgs ==
    /\ pc = "start"
    /\ LET r == parse_args(argv)
       IN  IF r.kind = "exit"
               THEN /\ pc' = "exited"
                    /\ status' = r.status
                    /\ exit_at' = "argparse"
                    /\ stdout' = IF r.stream = "stdout" THEN Append(stdout, r.text) ELSE stdout
                    /\ stderr' = IF r.stream = "stderr" THEN Append(stderr, r.text) ELSE stderr
                    /\ args' = args
               ELSE /\ pc' = "parsed"
                    /\ args' = r.ns
                    /\ UNCHANGED <<status, exit_at, stdout, stderr>>
    /\ UNCHANGED <<argv, env, calls, log, ret, exc, call>>

\* lines 105-133: the selected task runs and main returns or raises
RunTask ==
    /\ pc = "parsed"
    /\ LET r == run_task(args, env)
       IN  /\ log' = log \o r.log
           /\ calls' = calls \o r.calls
           /\ stdout' = stdout \o r.out
           /\ IF r.end.kind = "raise"
                  THEN pc' = "raised" /\ exc' = r.end.exc /\ ret' = ret
                  ELSE pc' = "returned" /\ ret' = r.end.value /\ exc' = exc
    /\ UNCHANGED <<argv, env, args, stderr, status, exit_at, call>>

\* line 138: sys.exit(main(...)); SystemExit is not an Exception and is not caught
SysExit ==
    /\ pc = "returned"
    /\ pc' = "exited"
    /\ status' = ret
    /\ exit_at' = "main"
    /\ UNCHANGED <<argv, env, args, calls, stdout, stderr, log, ret, exc, call>>

\* lines 139-141: the exception is logged and the process exits
HandleException ==
    /\ pc = "raised"
    /\ LET h == top_level_handler(exc)
       IN  /\ log' = Append(log, h.log)
           /\ status' = h.status
    /\ pc' = "exited"
    /\ exit_at' = "except"
    /\ UNCHANGED <<argv, env, args, calls, stdout, stderr, ret, exc, call>>

-----------------------------------------------------------------------------
(* Inputs of a run *)

\* str(i) as a token
RECURSIVE nat_token(_)
nat_token(i) ==
    IF i < 10 THEN <<Digits[i + 1]>>
    ELSE Append(nat_token(i \div 10), Digits[(i % 10) + 1])

int_token(i) == IF i < 0 THEN <<"-">> \o nat_token(-i) ELSE nat_token(i)

\* a word that is no subcommand, and an option no parser declares
DEPLOY == <<"d", "e", "p", "l", "o", "y">>

OPT_X == <<"-", "x">>

\* integer texts with the value each denotes
IntSamples ==
    {<<int_token(i), i>> : i \in (-NegSpan)..MaxN}
        \cup {<<<<"+", "3">>, 3>>, <<<<"0", "0", "7">>, 7>>, <<<<"-", "0">>, 0>>}

IntTokens == {p[1] : p \in IntSamples}

\* texts int() rejects
JunkTokens ==
    {<<"a", "b", "c">>, <<"1", ".", "5">>, <<"-", "1", ".", "5">>, <<>>, <<"-">>,
     <<"1", "2", "a">>, <<"+">>}

ValueTokens == IntTokens \cup JunkTokens

ShortTokens == {FIB, PRIMES, ENV, DEPLOY, OPT_N, HELP, int_token(5)}

SeqsUpTo(S, k) == UNION {[1..m -> S] : m \in 0..k}

Argvs ==
    SeqsUpTo(ShortTokens, MaxArgs)
        \cup {<<c, OPT_N, v>> : c \in {FIB, PRIMES, ENV, DEPLOY}, v \in ValueTokens}
        \cup {<<c, OPT_N, v, x>> :
                c \in {FIB, PRIMES}, v \in {int_token(4), <<"a", "b", "c">>},
                x \in {HELP, DEPLOY, OPT_N, OPT_X}}
        \cup {<<c, OPT_N, v, OPT_N, w>> :
                c \in {FIB, PRIMES},
                v \in {int_token(3), <<"a", "b", "c">>},
                w \in {int_token(-2), int_token(6), <<"a", "b", "c">>}}
        \cup {<<OPT_X, c>> : c \in {ENV, DEPLOY}}

EnvValues == {"", "http://ci"}

Envs == UNION {[S -> EnvValues] : S \in SUBSET {vars_to_show[i] : i \in 1..Len(vars_to_show)}}

-----------------------------------------------------------------------------
(* Specifications *)

Init ==
    /\ argv \in Argvs
    /\ env \in Envs
    /\ pc = "start"
    /\ args = NoArgs
    /\ calls = <<>>
    /\ stdout = <<>>
    /\ stderr = <<>>
    /\ log = <<>>
    /\ ret = None
    /\ exc = None
    /\ status = None
    /\ exit_at = None
    /\ call = NoCall

Next == ParseArgs \/ RunTask \/ SysExit \/ HandleException

Spec == Init /\ [][Next]_vars

InitLib ==
    /\ argv = <<>>
    /\ env = <<>>
    /\ pc = "library"
    /\ args = NoArgs
    /\ calls = <<>>
    /\ stdout = <<>>
    /\ stderr = <<>>
    /\ log = <<>>
    /\ ret = None
    /\ exc = None
    /\ status = None
    /\ exit_at = None
    /\ call = NoCall

NextLib ==
    \/ CallFibonacci /\ UNCHANGED cli_vars
    \/ CallIsPrime /\ UNCHANGED cli_vars
    \/ CallPrimesUpTo /\ UNCHANGED cli_vars

SpecLib == InitLib /\ [][NextLib]_vars

-----------------------------------------------------------------------------
(* Properties of the numeric functions, checked under SpecLib *)

\* X is prime by naive trial division over 2..sqrt(X)
NaivePrime(x) == x > 1 /\ \A d \in 2..x : d * d <= x => x % d # 0

\* C1: for every integer X, is_prime(X) is true exactly when X > 1 and no d
\* with 2 <= d and d*d <= X divides X; it is false for every X <= 1.
C1_IsPrimeMatchesTrialDivision ==
    call.fn = "is_prime" =>
        /\ call.out = Return(NaivePrime(call.arg))
        /\ call.arg <= 1 => call.out.value = FALSE

C1_Witness ==
    call.fn = "is_prime" /\ call.arg = 121 /\ call.out = Return(FALSE)

\* C2: for every N >= 0, fibonacci(N) returns a sequence of length exactly N,
\* the empty sequence for N = 0 and [0] for N = 1.
C2_FibonacciLength ==
    (call.fn = "fibonacci" /\ call.arg >= 0) =>
        /\ call.out.kind = "return"
        /\ Len(call.out.value) = call.arg
        /\ call.arg = 0 => call.out.value = <<>>
        /\ call.arg = 1 => call.out.value = <<0>>

C2_Witness ==
    call.fn = "fibonacci" /\ call.arg = 10 /\ call.out.kind = "return"
        /\ Len(call.out.value) = 10

\* C3: for every N >= 2, the sequence fibonacci(N) returns starts 0, 1 and
\* every later element is the sum of the two elements before it.
C3_FibonacciRecurrence ==
    (call.fn = "fibonacci" /\ call.arg >= 2) =>
        /\ call.out.kind = "return"
        /\ Len(call.out.value) >= call.arg
        /\ call.out.value[1] = 0
        /\ call.out.value[2] = 1
        /\ \A i \in 3..call.arg :
              call.out.value[i] = call.out.value[i - 1] + call.out.value[i - 2]

C3_Witness ==
    call.fn = "fibonacci" /\ call.arg = 10
        /\ call.out = Return(<<0, 1, 1, 2, 3, 5, 8, 13, 21, 34>>)

\* p is prime: greater than 1 with no positive divisor other than 1 and itself
PrimeByDefinition(p) == p > 1 /\ \A d \in 1..p : p % d = 0 => d \in {1, p}

\* C4: for every integer N, primes_up_to(N) is exactly the primes p with
\* 2 <= p <= N, each once, strictly ascending, and empty whenever N < 2.
C4_PrimesUpToExact ==
    call.fn = "primes_up_to" =>
        LET s == call.out.value
            N == call.arg
        IN  /\ \A i \in 1..Len(s) : s[i] \in 2..N /\ PrimeByDefinition(s[i])
            /\ \A i \in 1..Len(s) : \A j \in 1..Len(s) : i < j => s[i] < s[j]
            /\ \A p \in 2..N : PrimeByDefinition(p) => \E i \in 1..Len(s) : s[i] = p
            /\ N < 2 => s = <<>>

C4_Witness ==
    call.fn = "primes_up_to" /\ call.arg = 30
        /\ call.out = Return(<<2, 3, 5, 7, 11, 13, 17, 19, 23, 29>>)

-----------------------------------------------------------------------------
(* Properties of a run, checked under Spec *)

\* main was entered and has ended, by returning or by raising
MainEnded == pc \in {"returned", "raised"} \/ (pc = "exited" /\ exit_at # "argparse")

\* C5: fibonacci(N) with N < 0 raises the invalid-argument error and returns
\* no sequence; through the fib task main does not catch it, nothing is
\* printed, and the top-level handler ends the process with status 1.
C5_NegativeFibFails ==
    /\ \A k \in 1..Len(calls) :
          (calls[k][1] = "fibonacci" /\ calls[k][2] < 0) =>
              calls[k][3] = Raise("ValueError")
    /\ (MainEnded /\ args.task = FIB /\ args.n < 0) =>
          /\ calls # <<>>
          /\ exc = "ValueError"
          /\ ret = None
          /\ stdout = <<>>
          /\ pc = "exited" => (status = 1 /\ exit_at = "except")

C5_Witness ==
    /\ pc = "exited"
    /\ argv = <<FIB, OPT_N, <<"-", "3">>>>
    /\ args.task = FIB /\ args.n = -3
    /\ status = 1
    /\ stdout = <<>>

\* the six CI variables in their declared order
DeclaredOrder ==
    <<"JENKINS_URL", "JOB_NAME", "BUILD_NUMBER", "GIT_URL", "BRANCH_NAME",
      "SONAR_HOST_URL">>

\* C6: whatever subset of the six CI variables is set, the env task prints
\* exactly six lines NAME=value in the declared order, with the empty string
\* for an unset variable, returns 0 and never fails.
C6_EnvPrintsSixLines ==
    (pc # "start" /\ args.task = ENV) =>
        /\ pc # "raised"
        /\ MainEnded =>
              /\ Len(stdout) = 6
              /\ \A i \in 1..6 :
                    stdout[i] = DeclaredOrder[i] \o "="
                        \o (IF DeclaredOrder[i] \in DOMAIN env
                                THEN env[DeclaredOrder[i]] ELSE "")
              /\ ret = 0
              /\ exc = None
              /\ pc = "exited" => status = 0

C6_Witness ==
    /\ pc = "exited"
    /\ args.task = ENV
    /\ DOMAIN env = {"JOB_NAME", "GIT_URL"}
    /\ env["JOB_NAME"] = "http://ci"
    /\ env["GIT_URL"] = ""
    /\ stdout = <<"JENKINS_URL=", "JOB_NAME=http://ci", "BUILD_NUMBER=",
                  "GIT_URL=", "BRANCH_NAME=", "SONAR_HOST_URL=">>
    /\ status = 0

\* tokens of the input alphabet that a parser reads as option strings
OptionTokens == {OPT_N, HELP, OPT_X}

\* positions of the tokens of a that are arguments, not option strings
ArgumentPositions(a) == {k \in 1..Len(a) : a[k] \notin OptionTokens}

\* help is requested before any subcommand is named
HelpFirst(a) ==
    \E k \in 1..Len(a) :
        a[k] = HELP /\ \A j \in ArgumentPositions(a) : k < j

\* the command line names no subcommand, or one that is not fib, primes, env
TaskMissingOrUnrecognized(a) ==
    /\ ~HelpFirst(a)
    /\ \A k \in ArgumentPositions(a) :
          (\A j \in ArgumentPositions(a) : k <= j) => a[k] \notin {FIB, PRIMES, ENV}

\* C7: a missing or unrecognized task ends the process with status 2; an
\* unhandled fault during dispatch ends it with status 1, never with 2 or 0.
C7_ExitStatuses ==
    pc = "exited" =>
        /\ TaskMissingOrUnrecognized(argv) => status = 2
        /\ (exc # None \/ exit_at = "except") => (status = 1 /\ status \notin {0, 2})

C7_Witness ==
    pc = "exited" /\ argv = <<DEPLOY, OPT_N, <<"5">>>> /\ status = 2

\* a usage error of fib or primes: --n is omitted, or is given a non-integer
UsageError(a) ==
    /\ a # <<>>
    /\ a[1] \in {FIB, PRIMES}
    /\ \A k \in 1..Len(a) : a[k] # HELP
    /\ \/ \A k \in 1..Len(a) : a[k] # OPT_N
       \/ \E k \in 1..(Len(a) - 1) : a[k] = OPT_N /\ a[k + 1] \in JunkTokens

\* C8 as stated: a usage error exits with a non-zero status different from
\* the unknown-task status 2 and from the unhandled-fault status 1.
C8_UsageStatusDistinct ==
    (pc = "exited" /\ UsageError(argv)) => status \notin {0, 1, 2}

\* C8 as amended: a usage error exits with status 2, raised by the argument
\* parser: non-zero and different from the unhandled-fault status 1, but the
\* same status as a missing or unrecognized task.
C8_UsageStatusIsTwo ==
    (pc = "exited" /\ UsageError(argv)) =>
        (status = 2 /\ status \notin {0, 1} /\ exit_at = "argparse")

C8_Witness ==
    pc = "exited" /\ argv = <<PRIMES, OPT_N, <<"a", "b", "c">>>> /\ status = 2

\* C9: argument parsing completes before any task logic: on a usage error the
\* run ends inside parse_args and nothing is called or printed; a task
\* function is only called, after parsing returned, with an integer n that
\* is the value of a --n token of the command line.
C9_ParseBeforeTask ==
    /\ UsageError(argv) =>
          /\ pc \in {"start", "exited"}
          /\ pc = "exited" => exit_at = "argparse"
          /\ calls = <<>>
          /\ stdout = <<>>
    /\ calls # <<>> => (MainEnded /\ args.task \in {FIB, PRIMES})
    /\ \A k \in 1..Len(calls) :
          \E j \in 1..(Len(argv) - 1) :
              argv[j] = OPT_N /\ <<argv[j + 1], calls[k][2]>> \in IntSamples

C9_Witness ==
    /\ pc = "exited"
    /\ argv = <<FIB>>
    /\ exit_at = "argparse"
    /\ calls = <<>>
    /\ stdout = <<>>

\* C10: whenever parse_args returns to main the task is fib, primes or env,
\* so the Unknown task branch never runs; main only ever returns 0, and
\* status 2 comes only from the argument parser ending the process.
C10_UnknownTaskUnreachable ==
    /\ pc \notin {"start"} /\ ~(pc = "exited" /\ exit_at = "argparse")
          => args.task \in {FIB, PRIMES, ENV}
    /\ \A k \in 1..Len(log) : log[k] # <<"ERROR", "Unknown task.">>
    /\ (pc = "returned" \/ (pc = "exited" /\ exit_at = "main")) => ret = 0
    /\ (pc = "exited" /\ status = 2) => exit_at = "argparse"

C10_Witness ==
    /\ pc = "returned"
    /\ argv = <<PRIMES, OPT_N, <<"1", "0">>>>
    /\ args = [task |-> PRIMES, n |-> 10]
    /\ stdout = <<"[2, 3, 5, 7]">>
    /\ ret = 0

====
